---------------------------- MODULE Spec2Model ----------------------------
(***************************************************************************)
(* A model of dbms/src/Functions/FunctionsConditional.cpp: the type        *)
(* resolution and the per-block execution of multiIf / CASE.               *)
(*                                                                         *)
(* Data types are sequences of name tokens, outermost wrapper first:       *)
(*   Nullable(Array(Int32))  is  <<"Nullable", "Array", "Int32">>.         *)
(* Two types have the same getName() exactly when the sequences are equal. *)
(* C++ positions are 0-based; At(s, i) reads position i of a sequence.     *)
(***************************************************************************)
EXTENDS Integers, Sequences, FiniteSets, TLC

VARIABLES
    typeArgs,       \* DataTypes handed to getReturnTypeImpl
    is_case_mode,   \* FunctionMultiIf::is_case_mode
    ret,            \* what getReturnTypeImpl returned or threw
    phase,          \* "args" before the call, "resolved" after it
    call_block,     \* the caller's Block: position -> [type, col]
    call_args,      \* ColumnNumbers handed to executeImpl
    call_result,    \* the result position handed to executeImpl
    status,         \* "ready", then how executeImpl ended: "ok", "error", "crashed"
    thrown,         \* the Exception executeImpl ended with
    trivial,        \* what the call of performTrivialCase did
    tracker_holder, \* the tracker column executeImpl read after perform_multi_if
    caught,         \* the CondException a catch clause hands to rethrowContextually
    case_args,      \* the arguments handed to FunctionCaseWithExpr
    transform_call  \* what FunctionCaseWithExpr handed to the array and transform functions

vars == <<typeArgs, is_case_mode, ret, phase,
          call_block, call_args, call_result, status, thrown, trivial, tracker_holder,
          caught, case_args, transform_call>>

typeVars == <<typeArgs, ret, phase>>
execVars == <<call_block, call_args, call_result, status, thrown, trivial,
              tracker_holder>>
caseVars == <<case_args, transform_call>>

\* Largest argument count of a type list and of a call of executeImpl.
MaxArgs == 5

\* Rows of a block.
MaxRows == 2

\* The number of columns that precede the arguments in a block, when any do.
MaxBase == 1

---------------------------------------------------------------------------
(* Data types *)

T_Null == <<"Null">>
T_UInt8 == <<"UInt8">>
T_Int32 == <<"Int32">>
T_UInt64 == <<"UInt64">>
T_String == <<"String">>
T_FixedString3 == <<"FixedString(3)">>
T_FixedString5 == <<"FixedString(5)">>

DataTypeNullable(t) == <<"Nullable">> \o t
DataTypeArray(t) == <<"Array">> \o t

At(s, i) == s[i + 1]

isNullable(t) == Head(t) = "Nullable"
isNull(t) == t = T_Null
getNestedType(t) == Tail(t)
isArray(t) == Head(t) = "Array"
isFixedString(t) == t \in {T_FixedString3, T_FixedString5}
getN(t) == IF t = T_FixedString3 THEN 3 ELSE 5
behavesAsNumber(t) == t \in {T_UInt8, T_Int32, T_UInt64}

\* The "observed type": a nullable type's nested type, any other type itself.
observedType(t) == IF isNullable(t) THEN getNestedType(t) ELSE t

\* Types a condition argument is drawn from: the three legal kinds and a
\* numeric type that is not UInt8.
CondTypes == {T_UInt8, DataTypeNullable(T_UInt8), T_Null, T_Int32}

\* Types a then/else argument is drawn from.
BranchTypes ==
    {T_Null, T_UInt8, T_Int32, T_UInt64, T_String, T_FixedString3, T_FixedString5,
     DataTypeNullable(T_Int32), DataTypeNullable(T_String),
     DataTypeNullable(T_FixedString3),
     DataTypeArray(T_Int32), DataTypeArray(T_UInt64), DataTypeArray(T_String),
     DataTypeArray(DataTypeNullable(T_Int32)),
     DataTypeNullable(DataTypeArray(T_Int32))}

---------------------------------------------------------------------------
(* Conditional/common.h: the argument layout *)

firstCond == 0
firstThen == 1
elseArg(args) == Len(args) - 1
isCond(i) == i % 2 = 0
hasValidArgCount(args) == Len(args) >= 3 /\ Len(args) % 2 = 1

\* Positions visited by  for (i = firstCond(); i < elseArg(args); i = nextCond(i)).
CondPositions(args) == {i \in firstCond .. elseArg(args) - 1 : i % 2 = 0}
\* Positions visited by  for (i = firstThen(); i < else_arg; i = nextThen(i)).
ThenPositions(args) == {i \in firstThen .. elseArg(args) - 1 : i % 2 = 1}
\* The then positions and the else position.
BranchPositions(args) == ThenPositions(args) \cup {elseArg(args)}

Min(S) == CHOOSE x \in S : \A y \in S : x <= y

---------------------------------------------------------------------------
(* Results and errors *)

Ok(t) == [err |-> "", code |-> "", msg |-> "", type |-> t]
Exception(kind, code, msg) == [err |-> kind, code |-> code, msg |-> msg, type |-> <<>>]
\* A CondException carries its code and two message fragments; the fragments
\* are sequences of characters and are empty when the thrower gives none.
CondExceptionOf(code, msg1, msg2) ==
    [err |-> "CondException", code |-> code, msg |-> "", type |-> <<>>,
     msg1 |-> msg1, msg2 |-> msg2]
CondException(code) == CondExceptionOf(code, <<>>, <<>>)
isOk(r) == r.err = ""

---------------------------------------------------------------------------
(* Conditional/ArgsInfo: the branch type classifier (section 4.2 of the    *)
(* specification).  A null-type branch is allowed in every class, and a    *)
(* class needs one branch that is not the null type: the list whose        *)
(* branches are all null falls through to the identical-types case.        *)

someBranchNotNull(args) == \E i \in BranchPositions(args) : ~isNull(At(args, i))

hasArithmeticBranches(args) ==
    /\ \A i \in BranchPositions(args) :
          isNull(At(args, i)) \/ behavesAsNumber(observedType(At(args, i)))
    /\ someBranchNotNull(args)

hasArrayBranches(args) ==
    /\ \A i \in BranchPositions(args) :
          isNull(At(args, i)) \/ isArray(observedType(At(args, i)))
    /\ someBranchNotNull(args)

\* Every branch's type name matches the first non-null branch's.
hasIdenticalTypes(args) ==
    \A i, j \in BranchPositions(args) :
        (~isNull(At(args, i)) /\ ~isNull(At(args, j))) => At(args, i) = At(args, j)

hasFixedStrings(args) ==
    \A i \in BranchPositions(args) :
        isNull(At(args, i)) \/ isFixedString(observedType(At(args, i)))

hasFixedStringsOfIdenticalLength(args) ==
    \A i, j \in BranchPositions(args) :
        (~isNull(At(args, i)) /\ ~isNull(At(args, j)))
            => getN(observedType(At(args, i))) = getN(observedType(At(args, j)))

hasStrings(args) ==
    \A i \in BranchPositions(args) :
        isNull(At(args, i)) \/ observedType(At(args, i)) = T_String

\* The numeric promotion collaborator: the least numeric type that holds every
\* branch without loss, nullable when a branch is nullable or null; Int32 and
\* UInt64 have no common type.
getReturnTypeForArithmeticArgs(args) ==
    LET nums == {observedType(At(args, i)) :
                    i \in {j \in BranchPositions(args) : ~isNull(At(args, j))}}
        wrap == \E i \in BranchPositions(args) :
                    isNull(At(args, i)) \/ isNullable(At(args, i))
        join == IF T_UInt64 \in nums THEN T_UInt64
                ELSE IF T_Int32 \in nums THEN T_Int32 ELSE T_UInt8
    IN  IF T_Int32 \in nums /\ T_UInt64 \in nums
        THEN CondException("TYPE_DEDUCER_UPSCALING_ERROR")
        ELSE Ok(IF wrap THEN DataTypeNullable(join) ELSE join)

---------------------------------------------------------------------------
(* FunctionsConditional.cpp: type resolution *)

hasNullableDataTypes(args) ==
    \E i \in BranchPositions(args) : isNullable(At(args, i))

hasNullDataTypes(args) ==
    \E i \in BranchPositions(args) : isNull(At(args, i))

\* Decimal digits, as characters.
Digits == <<"0", "1", "2", "3", "4", "5", "6", "7", "8", "9">>
DigitChars == {Digits[k] : k \in 1 .. Len(Digits)}
digitValue(c) == CHOOSE d \in 0 .. 9 : Digits[d + 1] = c

\* toString of an unsigned number: its decimal digits.
RECURSIVE toString(_)
toString(n) ==
    IF n < 10 THEN <<Digits[n + 1]>>
    ELSE toString(n \div 10) \o <<Digits[(n % 10) + 1]>>

\* std::stoul: the number written by the leading digits of s; with no leading
\* digit it throws std::invalid_argument (ok = FALSE).
RECURSIVE stoulFrom(_, _, _)
stoulFrom(s, k, acc) ==
    IF k > Len(s) \/ s[k] \notin DigitChars THEN acc
    ELSE stoulFrom(s, k + 1, 10 * acc + digitValue(s[k]))

stoul(s) ==
    IF s = <<>> \/ s[1] \notin DigitChars
    THEN [ok |-> FALSE, value |-> 0]
    ELSE [ok |-> TRUE, value |-> stoulFrom(s, 1, 0)]

\* The std::string of a sequence of characters.
RECURSIVE text(_)
text(s) == IF s = <<>> THEN "" ELSE Head(s) \o text(Tail(s))

\* What escapes rethrowContextually when std::stoul throws.
InvalidArgument == Exception("std::invalid_argument", "std::invalid_argument", "stoul")

\* One "THEN clause n" / "ELSE clause" throw of the CASE table: i is parsed
\* from the fragment, an odd i names THEN clause 1 + (i - 1) / 2.
clauseException(fragment, kind, code, before, then_after, else_text) ==
    LET i == stoul(fragment)
    IN  IF ~i.ok THEN InvalidArgument
        ELSE IF i.value % 2 = 1
        THEN Exception(kind, code,
                before \o "THEN clause "
                    \o text(toString(1 + (i.value - 1) \div 2)) \o then_after)
        ELSE Exception(kind, code, else_text)

\* rethrowContextually, CASE construction context.
rethrowInCase(ex) ==
    CASE ex.code = "TYPE_DEDUCER_ILLEGAL_COLUMN_TYPE" ->
           Exception("IllegalColumnType", "ILLEGAL_TYPE_OF_ARGUMENT",
               "Illegal type of column " \o text(ex.msg1) \o " in CASE construction")
      [] ex.code = "TYPE_DEDUCER_UPSCALING_ERROR" ->
           Exception("UpscaleImpossible", "ILLEGAL_TYPE_OF_ARGUMENT",
               "THEN/ELSE clause parameters in CASE construction are not upscalable to a "
                   \o "common type without loss of precision: " \o text(ex.msg1))
      [] ex.code = "NUMERIC_PERFORMER_ILLEGAL_COLUMN" ->
           clauseException(ex.msg1, "IllegalColumn", "ILLEGAL_COLUMN",
               "Illegal ", " in CASE construction",
               "Illegal ELSE clause in CASE construction")
      [] ex.code = "COND_SOURCE_ILLEGAL_COLUMN" ->
           clauseException(ex.msg2, "IllegalConditionColumn", "ILLEGAL_COLUMN",
               "Illegal column " \o text(ex.msg1) \o " of ",
               " in CASE construction.Must be ColumnUInt8 or ColumnConstUInt8",
               "Illegal column " \o text(ex.msg1) \o " of ELSE clause "
                   \o " in CASE construction. Must be ColumnUInt8 or ColumnConstUInt8")
      [] ex.code = "NUMERIC_EVALUATOR_ILLEGAL_ARGUMENT" ->
           clauseException(ex.msg1, "IllegalArgumentType", "ILLEGAL_TYPE_OF_ARGUMENT",
               "Illegal type of ", " in CASE construction",
               "Illegal type of ELSE clause in CASE construction")
      [] ex.code = "ARRAY_EVALUATOR_INVALID_TYPES" ->
           Exception("InvalidArrayTypes", "ILLEGAL_TYPE_OF_ARGUMENT",
               "Internal logic error: one or more THEN/ELSE clauses of "
                   \o "CASE construction have invalid types")
      [] OTHER ->
           Exception("Unexpected", "LOGICAL_ERROR",
               "An unexpected error has occurred in CASE construction")

\* rethrowContextually, multiIf function context.
rethrowInFunction(ex) ==
    CASE ex.code = "TYPE_DEDUCER_ILLEGAL_COLUMN_TYPE" ->
           Exception("IllegalColumnType", "ILLEGAL_TYPE_OF_ARGUMENT",
               "Illegal type of column " \o text(ex.msg1) \o " of function multiIf")
      [] ex.code = "TYPE_DEDUCER_UPSCALING_ERROR" ->
           Exception("UpscaleImpossible", "ILLEGAL_TYPE_OF_ARGUMENT",
               "Arguments of function multiIf are not upscalable to a "
                   \o "common type without loss of precision: " \o text(ex.msg1))
      [] ex.code = "NUMERIC_PERFORMER_ILLEGAL_COLUMN" ->
           Exception("IllegalColumn", "ILLEGAL_COLUMN",
               "Illegal argument " \o text(ex.msg1) \o " of function multiIf")
      [] ex.code = "COND_SOURCE_ILLEGAL_COLUMN" ->
           Exception("IllegalConditionColumn", "ILLEGAL_COLUMN",
               "Illegal column " \o text(ex.msg1) \o " of argument " \o text(ex.msg2)
                   \o " of function multiIfMust be ColumnUInt8 or ColumnConstUInt8.")
      [] ex.code = "NUMERIC_EVALUATOR_ILLEGAL_ARGUMENT" ->
           Exception("IllegalArgumentType", "ILLEGAL_TYPE_OF_ARGUMENT",
               "Illegal type of argument " \o text(ex.msg1) \o " of function multiIf")
      [] ex.code = "ARRAY_EVALUATOR_INVALID_TYPES" ->
           Exception("InvalidArrayTypes", "ILLEGAL_TYPE_OF_ARGUMENT",
               "Internal logic error: one or more arguments of function "
                   \o "multiIf have invalid types")
      [] OTHER ->
           Exception("Unexpected", "LOGICAL_ERROR",
               "An unexpected error has occurred while performing multiIf")

\* A faulty variant of rethrowContextually: the CASE context knows none of the codes.
rethrowContextually_caseKnowsNoCode(ex, case_mode) ==
    IF case_mode
    THEN Exception("Unexpected", "LOGICAL_ERROR",
            "An unexpected error has occurred in CASE construction")
    ELSE rethrowInFunction(ex)

\* rethrowContextually: the Exception raised for a context-free CondException.
rethrowContextually(ex, case_mode) ==
    IF case_mode THEN rethrowInCase(ex) ELSE rethrowInFunction(ex)

\* A faulty variant of invalidArgCount: the parity of the count is not looked at.
invalidArgCount_shortOnly(args) == Len(args) < 3

\* The guard of the first throw of getReturnTypeInternal.
invalidArgCount(args) == ~hasValidArgCount(args)

\* A faulty variant of isValidCondition: a nullable condition is not unwrapped.
isValidCondition_noUnwrap(args, i) ==
    At(args, i) = T_UInt8 \/ isNull(At(args, i))

\* Whether the condition at position i passes the check of the condition loop.
isValidCondition(args, i) ==
    LET observed_type == IF isNullable(At(args, i))
                         THEN getNestedType(At(args, i)) ELSE At(args, i)
    IN  observed_type = T_UInt8 \/ isNull(observed_type)

\* A faulty variant of get_type_to_return: the type is never made nullable.
get_type_to_return_noWrap(arg, has_nullable_types, has_null_types) == arg

get_type_to_return(arg, has_nullable_types, has_null_types) ==
    IF isNullable(arg) THEN arg
    ELSE IF has_nullable_types \/ has_null_types THEN DataTypeNullable(arg)
    ELSE arg

\* The last branch of getReturnTypeInternal: the branches have identical types.
returnTypeOfIdentical(args) ==
    LET has_nullable_types == hasNullableDataTypes(args)
        has_null_types == hasNullDataTypes(args)
        nonNull == {i \in BranchPositions(args) : ~isNull(At(args, i))}
    IN  IF nonNull # {}
        THEN Ok(get_type_to_return(At(args, Min(nonNull)),
                                   has_nullable_types, has_null_types))
        ELSE Ok(T_Null)

\* A faulty variant of returnTypeOfFixedStrings: the lengths are not compared.
returnTypeOfFixedStrings_noLengthCheck(args, case_mode) ==
    LET data == At(args, firstThen)
    IN  IF ~isFixedString(data)
        THEN Exception("InternalError", "LOGICAL_ERROR", "Internal error")
        ELSE IF hasNullableDataTypes(args) \/ hasNullDataTypes(args)
        THEN Ok(DataTypeNullable(data)) ELSE Ok(data)

\* The branch for fixed strings whose types are not identical.
returnTypeOfFixedStrings(args, case_mode) ==
    LET ctx == IF case_mode THEN "in CASE construction" ELSE "of function multiIf"
        data == At(args, firstThen)
    IN  IF ~hasFixedStringsOfIdenticalLength(args)
        THEN Exception("FixedStringLengthMismatch", "ILLEGAL_TYPE_OF_ARGUMENT", ctx)
        ELSE IF ~isFixedString(data)
        THEN Exception("InternalError", "LOGICAL_ERROR", "Internal error")
        ELSE LET type == IF getN(data) = 3 THEN T_FixedString3 ELSE T_FixedString5
             IN  IF hasNullableDataTypes(args) \/ hasNullDataTypes(args)
                 THEN Ok(DataTypeNullable(type)) ELSE Ok(type)

\* push_branch_arg and the loop around it: the argument list with every array
\* branch replaced by its element type.
arrayElementArgs(args) ==
    [k \in 1 .. Len(args) |->
        LET i == k - 1
        IN  IF i < elseArg(args) /\ isCond(i) THEN At(args, i)
            ELSE IF isNull(At(args, i)) THEN At(args, i)
            ELSE getNestedType(observedType(At(args, i)))]

\* A faulty variant of arrayOfElementType: a nullable element type is kept as it is.
arrayOfElementType_keepNullable(elt_type, wrap) ==
    IF wrap THEN DataTypeNullable(DataTypeArray(elt_type)) ELSE DataTypeArray(elt_type)

\* What is done with the element type the recursive call returned.
arrayOfElementType(elt_type, wrap) ==
    LET elt == IF isNullable(elt_type) THEN getNestedType(elt_type) ELSE elt_type
        type == DataTypeArray(elt)
    IN  IF wrap THEN DataTypeNullable(type) ELSE type

\* A faulty variant of returnTypeOfNonIdentical: anything that is not a fixed string is
\* taken for a string.
returnTypeOfNonIdentical_fallsToString(args, case_mode) ==
    IF hasFixedStrings(args)
    THEN returnTypeOfFixedStrings(args, case_mode)
    ELSE IF hasNullableDataTypes(args) \/ hasNullDataTypes(args)
    THEN Ok(DataTypeNullable(T_String)) ELSE Ok(T_String)

\* The branch taken when the types are not identical: fixed strings, strings,
\* or incompatible branches.
returnTypeOfNonIdentical(args, case_mode) ==
    LET ctx == IF case_mode THEN "in CASE construction" ELSE "of function multiIf"
    IN  IF hasFixedStrings(args)
        THEN returnTypeOfFixedStrings(args, case_mode)
        ELSE IF hasStrings(args)
        THEN IF hasNullableDataTypes(args) \/ hasNullDataTypes(args)
             THEN Ok(DataTypeNullable(T_String)) ELSE Ok(T_String)
        ELSE Exception("IncompatibleBranches", "ILLEGAL_TYPE_OF_ARGUMENT", ctx)

RECURSIVE getReturnTypeImpl(_, _)

getReturnTypeInternal(args, case_mode) ==
    LET ctx == IF case_mode THEN "in CASE construction" ELSE "of function multiIf"
    IN  IF invalidArgCount(args)
        THEN Exception("ArityError", "NUMBER_OF_ARGUMENTS_DOESNT_MATCH", ctx)
        ELSE IF \E i \in CondPositions(args) : ~isValidCondition(args, i)
        THEN Exception("InvalidConditionType", "ILLEGAL_TYPE_OF_ARGUMENT", ctx)
        ELSE IF hasArithmeticBranches(args)
        THEN getReturnTypeForArithmeticArgs(args)
        ELSE IF hasArrayBranches(args)
        THEN IF \E i \in BranchPositions(args) :
                    ~isNull(At(args, i)) /\ ~isArray(observedType(At(args, i)))
             THEN Exception("InternalError", "LOGICAL_ERROR", "Internal error")
             ELSE LET r == getReturnTypeImpl(arrayElementArgs(args), case_mode)
                  IN  IF ~isOk(r) THEN r
                      ELSE Ok(arrayOfElementType(r.type,
                                hasNullableDataTypes(args) \/ hasNullDataTypes(args)))
        ELSE IF ~hasIdenticalTypes(args)
        THEN returnTypeOfNonIdentical(args, case_mode)
        ELSE returnTypeOfIdentical(args)

getReturnTypeImpl(args, case_mode) ==
    LET r == getReturnTypeInternal(args, case_mode)
    IN  IF r.err = "CondException" THEN rethrowContextually(r, case_mode) ELSE r

---------------------------------------------------------------------------
(* Type resolution as a state machine: one call of getReturnTypeImpl on an *)
(* argument type list.                                                     *)

\* An argument at position i of a list of k types: the positions before the
\* last that are even hold conditions, the others hold branches.
TypesAt(k, i) == IF i < k - 1 /\ isCond(i) THEN CondTypes ELSE BranchTypes

TypeLists ==
    UNION {{s \in [1 .. k -> CondTypes \cup BranchTypes] :
              \A i \in 0 .. k - 1 : At(s, i) \in TypesAt(k, i)} : k \in 0 .. MaxArgs}

NoResult == [err |-> "none", code |-> "", msg |-> "", type |-> <<>>]

\* FunctionCaseWithExpr is not called.
CaseIdle ==
    /\ case_args = <<>>
    /\ transform_call = <<>>

\* The execution state while only type resolution is looked at.
ExecIdle ==
    /\ call_block = <<>>
    /\ call_args = <<>>
    /\ call_result = 0
    /\ status = "idle"
    /\ thrown = NoResult
    /\ trivial = <<>>
    /\ tracker_holder = <<>>

InitTypes ==
    /\ typeArgs \in TypeLists
    /\ is_case_mode \in BOOLEAN
    /\ ret = NoResult
    /\ phase = "args"
    /\ caught = <<>>
    /\ CaseIdle
    /\ ExecIdle

GetReturnType ==
    /\ phase = "args"
    /\ ret' = getReturnTypeImpl(typeArgs, is_case_mode)
    /\ phase' = "resolved"
    /\ UNCHANGED <<typeArgs, is_case_mode, caught>>
    /\ UNCHANGED execVars
    /\ UNCHANGED caseVars

NextTypes == GetReturnType

SpecTypes == InitTypes /\ [][NextTypes]_vars

---------------------------------------------------------------------------
(* Columns and blocks.  A block maps a position to [type, col]; a column is  *)
(* [kind, inner, vals, nullmap]: kind "full" (one value per row), "const",    *)
(* "null" (ColumnNull), "nullable" (inner is the nested column's kind) or     *)
(* "none" (no column yet).                                                    *)

Rows == 1 .. MaxRows
Zeros == [r \in Rows |-> 0]
Ones == [r \in Rows |-> 1]

ColumnFull(vals) == [kind |-> "full", inner |-> "", vals |-> vals, nullmap |-> <<>>]
ColumnConst(v) ==
    [kind |-> "const", inner |-> "", vals |-> [r \in Rows |-> v], nullmap |-> <<>>]
ColumnNull == [kind |-> "null", inner |-> "", vals |-> Zeros, nullmap |-> <<>>]
ColumnNullable(nested, map) ==
    [kind |-> "nullable", inner |-> nested.kind, vals |-> nested.vals, nullmap |-> map]
NoColumn == [kind |-> "none", inner |-> "", vals |-> <<>>, nullmap |-> <<>>]

getNestedColumn(c) == [kind |-> c.inner, inner |-> "", vals |-> c.vals, nullmap |-> <<>>]
col_isNull(c) == c.kind = "null"
col_isNullable(c) == c.kind = "nullable"
col_isConst(c) == c.kind \in {"const", "null"}
isNullAt(c, row) == c.nullmap[row] # 0

columns(block) == Cardinality(DOMAIN block)

\* The argument positions of a call, and the block positions they name.
ArgPositions(args) == 0 .. Len(args) - 1

blockHasNullableBranches(block, args) ==
    \E i \in BranchPositions(args) :
        LET column == block[At(args, i)].col
        IN  column.kind # "none" /\ (col_isNullable(column) \/ col_isNull(column))

\* The block with the columns at the given positions replaced by their nested
\* columns; null columns and columns that are not nullable are kept.
createBlockWithNestedColumns(block, positions) ==
    [q \in DOMAIN block |->
        IF q \in positions /\ col_isNullable(block[q].col)
        THEN [type |-> getNestedType(block[q].type),
              col |-> getNestedColumn(block[q].col)]
        ELSE block[q]]

\* CondSource::get: a constant or per-row UInt8 condition; a null condition is
\* false on every row.
cond_get(block, args, i, row) ==
    LET column == block[At(args, i)].col
    IN  ~col_isNull(column) /\ column.vals[row] # 0

---------------------------------------------------------------------------
(* FunctionMultiIf::performTrivialCase *)

make_result(block, result, tracker, index, sample) ==
    LET res_col == IF col_isNull(block[index].col)
                   THEN ColumnConst(sample) ELSE block[index].col
        written == [block EXCEPT ![result].col = res_col]
    IN  IF tracker # result
        THEN [written EXCEPT ![tracker].col = ColumnConst(index)]
        ELSE written

\* A faulty variant of selectConstBranch: a later true condition overrides an earlier one.
RECURSIVE selectConstBranch_lastWins(_, _, _)
selectConstBranch_lastWins(block, args, i) ==
    IF i >= elseArg(args) THEN At(args, elseArg(args))
    ELSE LET later == selectConstBranch_lastWins(block, args, i + 2)
         IN  IF later # At(args, elseArg(args)) THEN later
             ELSE IF cond_get(block, args, i, 1) THEN At(args, i + 1)
             ELSE later

\* The loop over the condition readers, from the condition at position i on:
\* the block position handed to make_result.
RECURSIVE selectConstBranch(_, _, _)
selectConstBranch(block, args, i) ==
    IF i >= elseArg(args) THEN At(args, elseArg(args))
    ELSE IF cond_get(block, args, i, 1) THEN At(args, i + 1)
    ELSE selectConstBranch(block, args, i + 2)

\* [ret, index, block]: whether it returned true, the position it selected (-1
\* when none) and the block it leaves.
performTrivialCase(block, args, result, tracker) ==
    LET else_arg == elseArg(args)
        typeOf(i) == block[At(args, i)].type
        nonNullThens == {i \in ThenPositions(args) : ~isNull(typeOf(i))}
        named == nonNullThens # {}
        first_type_name == IF named THEN typeOf(Min(nonNullThens)) ELSE <<>>
        mismatch ==
            \/ \E i \in nonNullThens : typeOf(i) # first_type_name
            \/ ~isNull(typeOf(else_arg)) /\ named /\ typeOf(else_arg) # first_type_name
        has_type == named \/ ~isNull(typeOf(else_arg))
        from == IF named THEN Min(nonNullThens) ELSE else_arg
        sample == block[At(args, from)].col.vals[1]
        index == selectConstBranch(block, args, firstCond)
    IN  IF mismatch
        THEN [ret |-> FALSE, index |-> -1, block |-> block]
        ELSE IF ~has_type
        THEN [ret |-> TRUE, index |-> -1,
              block |-> [block EXCEPT ![result].col = ColumnNull]]
        ELSE IF \E i \in CondPositions(args) : ~col_isConst(block[At(args, i)].col)
        THEN [ret |-> FALSE, index |-> -1, block |-> block]
        ELSE [ret |-> TRUE, index |-> index,
              block |-> make_result(block, result, tracker, index, sample)]

---------------------------------------------------------------------------
(* The payload evaluators (Conditional/NumericPerformer, StringEvaluator,  *)
(* StringArrayEvaluator): each takes the blocks whose branches it supports *)
(* and selects, row by row, the branch of the first true condition.        *)

RECURSIVE selectRowBranch(_, _, _, _)
selectRowBranch(block, args, i, row) ==
    IF i >= elseArg(args) THEN At(args, elseArg(args))
    ELSE IF cond_get(block, args, i, row) THEN At(args, i + 1)
    ELSE selectRowBranch(block, args, i + 2, row)

\* The tracker column an evaluator can leave behind: the per-row UInt16 column
\* its contract asks for, or anything else.
EvaluatorTrackerKinds == {"ColumnUInt16", "other"}

\* The block an evaluator leaves when it succeeds.
evaluate(block, args, result, tracker, tracker_kind) ==
    LET origin == [row \in Rows |-> selectRowBranch(block, args, firstCond, row)]
        res_col == ColumnFull([row \in Rows |-> block[origin[row]].col.vals[row]])
        written == [block EXCEPT ![result].col = res_col]
    IN  IF tracker = result THEN written
        ELSE IF tracker_kind = "ColumnUInt16"
        THEN [written EXCEPT ![tracker].col = ColumnFull(origin)]
        ELSE written

branchTypesIn(block, args, types) ==
    /\ \A i \in BranchPositions(args) :
          isNull(block[At(args, i)].type) \/ block[At(args, i)].type \in types
    /\ \E i \in BranchPositions(args) : ~isNull(block[At(args, i)].type)

NumericPerformer_applies(block, args) ==
    branchTypesIn(block, args, {T_UInt8, T_Int32, T_UInt64})

StringEvaluator_applies(block, args) ==
    branchTypesIn(block, args, {T_String, T_FixedString3, T_FixedString5})

StringArrayEvaluator_applies(block, args) ==
    branchTypesIn(block, args, {DataTypeArray(T_String)})

---------------------------------------------------------------------------
(* FunctionMultiIf::executeImpl *)

\* The lambda perform_multi_if: [thrown, block, trivial].
perform_multi_if(block, args, result, tracker, case_mode, tracker_kind) ==
    LET t == performTrivialCase(block, args, result, tracker)
        seen == [ret |-> t.ret, index |-> t.index, col |-> t.block[result].col]
        ctx == IF case_mode THEN "in CASE construction" ELSE "of function multiIf"
    IN  IF t.ret
        THEN [thrown |-> Ok(<<>>), block |-> t.block, trivial |-> seen]
        ELSE IF \/ NumericPerformer_applies(block, args)
                \/ StringEvaluator_applies(block, args)
                \/ StringArrayEvaluator_applies(block, args)
        THEN [thrown |-> Ok(<<>>),
              block |-> evaluate(block, args, result, tracker, tracker_kind),
              trivial |-> seen]
        ELSE [thrown |-> Exception("NoApplicableEvaluator", "ILLEGAL_COLUMN", ctx),
              block |-> block, trivial |-> seen]

\* The two flag tables of the per-row branch, as a function of the index they
\* are read at: an entry inside the table holds what the loop over args wrote
\* there, or the 0 that resize() put.
nullable_cols_map(block, args, pos) ==
    IF \E i \in ArgPositions(args) :
            At(args, i) = pos /\ col_isNullable(block[At(args, i)].col)
    THEN 1 ELSE 0

null_cols_map(block, args, pos) ==
    IF \E i \in ArgPositions(args) :
            At(args, i) = pos /\ col_isNull(block[At(args, i)].col)
    THEN 1 ELSE 0

\* is_null of one row of the per-row branch.  The tables have args.size()
\* entries: an index past them reads memory outside the table, and what is
\* read there is not determined (garbage).
rowIsNull(block, args, pos, row, garbage) ==
    IF pos >= Len(args) THEN garbage[row] # 0
    ELSE IF null_cols_map(block, args, pos) # 0 THEN TRUE
    ELSE IF nullable_cols_map(block, args, pos) # 0
    THEN isNullAt(block[pos].col, row)
    ELSE FALSE

\* Some index the per-row branch uses on its tables lies outside them.
tableIndexOutOfRange(args, holder) ==
    \/ \E i \in ArgPositions(args) : At(args, i) >= Len(args)
    \/ \E row \in Rows : holder.vals[row] >= Len(args)

\* The null map built from a constant tracker.
constTrackerNullMap(block, pos) ==
    LET origin == block[pos].col
    IN  IF col_isNull(origin) THEN Ones
        ELSE IF col_isNullable(origin) THEN origin.nullmap
        ELSE Zeros

\* What executeImpl does after perform_multi_if returned on the nullable path:
\* p is what perform_multi_if left, tracker the tracker position.
storeResult(block, args, result, tracker, p, garbage, crash) ==
    LET source_col == p.block[result].col
        holder == p.block[tracker].col
        dest(map) == [block EXCEPT ![result].col = ColumnNullable(source_col, map)]
        done(b, h) == [block |-> b, status |-> "ok", thrown |-> Ok(<<>>),
                       trivial |-> p.trivial, tracker_holder |-> h]
    IN  IF col_isNull(source_col)
        THEN done([block EXCEPT ![result].col = source_col], NoColumn)
        ELSE IF holder.kind = "const"
        THEN done(dest(constTrackerNullMap(block, holder.vals[1])), holder)
        ELSE IF holder.kind = "full"
        THEN IF crash /\ tableIndexOutOfRange(args, holder)
             THEN [block |-> dest(<<>>), status |-> "crashed", thrown |-> Ok(<<>>),
                   trivial |-> p.trivial, tracker_holder |-> holder]
             ELSE done(dest([row \in Rows |->
                              IF rowIsNull(block, args, holder.vals[row], row, garbage)
                              THEN 1 ELSE 0]), holder)
        ELSE [block |-> dest(<<>>), status |-> "error",
              thrown |-> Exception("InternalError", "LOGICAL_ERROR", "Internal error"),
              trivial |-> p.trivial, tracker_holder |-> holder]

\* executeImpl: [block, status, thrown, trivial, tracker_holder].  A
\* CondException is relabelled by rethrowContextually, any other exception
\* passes through.
executeImpl(block, args, result, case_mode, tracker_kind, garbage, crash) ==
    LET relabel(e) == IF e.err = "CondException"
                      THEN rethrowContextually(e, case_mode) ELSE e
    IN  IF ~blockHasNullableBranches(block, args)
        THEN LET p == perform_multi_if(block, args, result, result,
                                       case_mode, tracker_kind)
             IN  [block |-> p.block,
                  status |-> IF isOk(p.thrown) THEN "ok" ELSE "error",
                  thrown |-> relabel(p.thrown),
                  trivial |-> p.trivial, tracker_holder |-> NoColumn]
        ELSE LET args_to_transform == {At(args, i) : i \in BranchPositions(args)}
                 nested == createBlockWithNestedColumns(block, args_to_transform)
                 tracker == columns(nested)
                 block_with_nested_cols ==
                     [q \in 0 .. tracker |->
                         IF q < tracker THEN nested[q]
                         ELSE [type |-> <<"UInt16">>, col |-> NoColumn]]
                 p == perform_multi_if(block_with_nested_cols, args, result, tracker,
                                       case_mode, tracker_kind)
             IN  IF ~isOk(p.thrown)
                 THEN [block |-> block, status |-> "error", thrown |-> relabel(p.thrown),
                       trivial |-> p.trivial, tracker_holder |-> NoColumn]
                 ELSE storeResult(block, args, result, tracker, p, garbage, crash)

---------------------------------------------------------------------------
(* Execution as a state machine: one call of executeImpl on a block whose  *)
(* argument types passed type resolution.                                  *)

\* The value a branch column at position p holds on a row: it names its origin.
ValueAt(p, row) == 10 * p + row

\* The values of the per-row conditions: exactly one row set.
OneRowMaps == {[r \in Rows |-> IF r = k THEN 1 ELSE 0] : k \in Rows}

\* Condition columns: constant UInt8, per-row UInt8, or the null column.
CondElements ==
    {[type |-> T_UInt8, col |-> ColumnConst(v)] : v \in {0, 1}}
    \cup {[type |-> T_UInt8, col |-> ColumnFull(m)] : m \in OneRowMaps}
    \cup {[type |-> T_Null, col |-> ColumnNull]}

\* The type names the branches of one block are drawn from.
TypeFamilies == {{T_UInt8, T_Int32}, {DataTypeArray(T_Int32)}}

\* The null map of the nullable branch columns: the first row is null, the
\* others are not.
FirstRowNull == [r \in Rows |-> IF r = 1 THEN 1 ELSE 0]

\* The forms of a branch column: a full column, the null column, a nullable
\* column with its null map.
BranchForms ==
    {[form |-> "plain", map |-> Zeros], [form |-> "null", map |-> Zeros],
     [form |-> "nullable", map |-> FirstRowNull]}

InitExec ==
    /\ is_case_mode = FALSE
    /\ status = "ready"
    /\ thrown = NoResult
    /\ trivial = <<>>
    /\ tracker_holder = NoColumn
    /\ caught = <<>>
    /\ CaseIdle
    /\ phase = "resolved"
    /\ \E base \in {0, MaxBase}, k \in {n \in 3 .. MaxArgs : n % 2 = 1},
          family \in TypeFamilies :
        \E conds \in [1 .. (k - 1) \div 2 -> CondElements],
           types \in [1 .. (k + 1) \div 2 -> family],
           forms \in [1 .. (k + 1) \div 2 -> BranchForms] :
            LET branch(j, p) ==
                    LET values == [row \in Rows |-> ValueAt(p, row)]
                    IN  IF forms[j].form = "plain"
                        THEN [type |-> types[j], col |-> ColumnFull(values)]
                        ELSE IF forms[j].form = "null"
                        THEN [type |-> T_Null, col |-> ColumnNull]
                        ELSE [type |-> DataTypeNullable(types[j]),
                              col |-> ColumnNullable(ColumnFull(values), forms[j].map)]
                element(p) ==
                    IF p < base
                    THEN [type |-> T_Int32,
                          col |-> ColumnFull([row \in Rows |-> ValueAt(p, row)])]
                    ELSE IF p = base + k - 1 THEN branch((k + 1) \div 2, p)
                    ELSE IF (p - base) % 2 = 0 THEN conds[(p - base) \div 2 + 1]
                    ELSE branch((p - base + 1) \div 2, p)
                types_of_args == [i \in 1 .. k |-> element(base + i - 1).type]
                resolved == getReturnTypeImpl(types_of_args, FALSE)
            IN  /\ isOk(resolved)
                /\ typeArgs = types_of_args
                /\ ret = resolved
                /\ call_args = [i \in 1 .. k |-> base + i - 1]
                /\ call_result = base + k
                /\ call_block = [p \in 0 .. base + k |->
                                    IF p = base + k
                                    THEN [type |-> resolved.type, col |-> NoColumn]
                                    ELSE element(p)]

\* What the call leaves to its environment: the kind of tracker column an
\* evaluator hands back and, when an index falls outside the flag tables, what
\* the reads outside them return or whether the process dies.
EnvironmentChoices(out_of_range) ==
    {[tracker_kind |-> k, garbage |-> Zeros, crash |-> FALSE] : k \in EvaluatorTrackerKinds}
    \cup (IF out_of_range
          THEN {[tracker_kind |-> "ColumnUInt16", garbage |-> g, crash |-> c] :
                    g \in [Rows -> {0, 1}], c \in BOOLEAN}
          ELSE {})

ExecuteImpl ==
    /\ status = "ready"
    /\ LET out_of_range == \E i \in ArgPositions(call_args) :
                               At(call_args, i) >= Len(call_args)
       IN  \E env \in EnvironmentChoices(out_of_range) :
            LET out == executeImpl(call_block, call_args, call_result, is_case_mode,
                                   env.tracker_kind, env.garbage, env.crash)
            IN  /\ call_block' = out.block
                /\ status' = out.status
                /\ thrown' = out.thrown
                /\ trivial' = out.trivial
                /\ tracker_holder' = out.tracker_holder
    /\ UNCHANGED <<call_args, call_result, is_case_mode, caught>>
    /\ UNCHANGED typeVars
    /\ UNCHANGED caseVars

NextExec == ExecuteImpl

SpecExec == InitExec /\ [][NextExec]_vars

---------------------------------------------------------------------------
(* Properties of type resolution (checked under SpecTypes) *)

\* The condition kinds the resolver accepts.
LegalCondTypes == {T_UInt8, DataTypeNullable(T_UInt8), T_Null}

LegalConditions(args) ==
    \A i \in CondPositions(args) : At(args, i) \in LegalCondTypes

\* A list of valid arity whose conditions are all legal.
ValidArgs(args) ==
    /\ Len(args) >= 3
    /\ Len(args) % 2 = 1
    /\ LegalConditions(args)

\* Some branch is nullable-wrapped or is the null type.
NeedsNullable(args) ==
    \E i \in BranchPositions(args) : isNull(At(args, i)) \/ isNullable(At(args, i))

WrapIf(b, t) == IF b THEN DataTypeNullable(t) ELSE t

\* C3: resolution of a list of K types fails with ArityError whenever K is even
\* or K < 3, whatever the types at the condition and branch positions are.
C3_ArityErrorBeforeTypes ==
    (phase = "resolved" /\ (Len(typeArgs) % 2 = 0 \/ Len(typeArgs) < 3))
        => ret.err = "ArityError"

\* C3 witness: an even list whose first condition is illegal still ends with
\* ArityError.
C3_Witness ==
    /\ phase = "resolved"
    /\ Len(typeArgs) = 4
    /\ At(typeArgs, 0) = T_Int32
    /\ ret.err = "ArityError"

\* C4: with valid arity, an illegal condition gives InvalidConditionType whatever
\* the branches are; and no list whose conditions are all legal fails with
\* InvalidConditionType.
C4_InvalidConditionType ==
    phase = "resolved" =>
        /\ (hasValidArgCount(typeArgs) /\ ~LegalConditions(typeArgs))
              => ret.err = "InvalidConditionType"
        /\ LegalConditions(typeArgs) => ret.err # "InvalidConditionType"

\* C4 witness: a list of valid arity with incompatible branches and an illegal
\* second condition fails with InvalidConditionType.
C4_Witness ==
    /\ phase = "resolved"
    /\ Len(typeArgs) = 5
    /\ At(typeArgs, 0) = DataTypeNullable(T_UInt8)
    /\ At(typeArgs, 2) = T_Int32
    /\ At(typeArgs, 1) = T_String
    /\ At(typeArgs, 3) = DataTypeArray(T_Int32)
    /\ ret.err = "InvalidConditionType"

\* C5: for a valid list whose branches are identical (and neither all-arithmetic
\* nor all-array) the result is the first non-null branch's type, made nullable
\* exactly when some branch is nullable or null and that type is not nullable
\* already; when every branch is null, the result is the null type.
C5_IdenticalReturnsFirstNonNull ==
    (/\ phase = "resolved"
     /\ ValidArgs(typeArgs)
     /\ hasIdenticalTypes(typeArgs)
     /\ ~hasArithmeticBranches(typeArgs)
     /\ ~hasArrayBranches(typeArgs))
        => LET nonNull == {i \in BranchPositions(typeArgs) : ~isNull(At(typeArgs, i))}
               first == At(typeArgs, Min(nonNull))
           IN  IF nonNull = {} THEN ret = Ok(T_Null)
               ELSE ret = Ok(WrapIf(NeedsNullable(typeArgs) /\ ~isNullable(first), first))

\* C5 witness: a null then-branch followed by plain strings resolves to
\* Nullable(String).
C5_Witness ==
    /\ phase = "resolved"
    /\ Len(typeArgs) = 5
    /\ LegalConditions(typeArgs)
    /\ At(typeArgs, 1) = T_Null
    /\ At(typeArgs, 3) = T_String
    /\ At(typeArgs, 4) = T_String
    /\ ret = Ok(DataTypeNullable(T_String))

\* Every branch is a fixed string, nullable-wrapped or not, or the null type.
AllFixedStrings(args) ==
    \A i \in BranchPositions(args) :
        \/ isNull(At(args, i))
        \/ At(args, i) \in {T_FixedString3, T_FixedString5,
                            DataTypeNullable(T_FixedString3),
                            DataTypeNullable(T_FixedString5)}

\* The lengths of the fixed-string branches.
FixedLengths(args) ==
    {IF At(args, i) \in {T_FixedString3, DataTypeNullable(T_FixedString3)} THEN 3 ELSE 5 :
        i \in {j \in BranchPositions(args) : ~isNull(At(args, j))}}

\* C6: for a valid list whose branches are all fixed strings, not all of one
\* length, resolution fails with FixedStringLengthMismatch.
C6_FixedStringLengthMismatch ==
    (/\ phase = "resolved"
     /\ ValidArgs(typeArgs)
     /\ AllFixedStrings(typeArgs)
     /\ Cardinality(FixedLengths(typeArgs)) > 1)
        => ret.err = "FixedStringLengthMismatch"

\* C6 witness: FixedString(3) and FixedString(5) end with FixedStringLengthMismatch.
C6_Witness ==
    /\ phase = "resolved"
    /\ Len(typeArgs) = 3
    /\ At(typeArgs, 0) = T_UInt8
    /\ At(typeArgs, 1) = T_FixedString3
    /\ At(typeArgs, 2) = T_FixedString5
    /\ ret.err = "FixedStringLengthMismatch"

\* C7: for a valid list whose branches are not type-identical but are all fixed
\* strings of one length L (nullable-wrapped or null branches in any position),
\* resolution returns FixedString(L), nullable exactly when some branch is
\* nullable-wrapped or null.
C7_FixedStringsOfOneLength ==
    (/\ phase = "resolved"
     /\ ValidArgs(typeArgs)
     /\ ~hasIdenticalTypes(typeArgs)
     /\ AllFixedStrings(typeArgs)
     /\ Cardinality(FixedLengths(typeArgs)) = 1)
        => LET L == CHOOSE n \in FixedLengths(typeArgs) : TRUE
               fs == IF L = 3 THEN T_FixedString3 ELSE T_FixedString5
           IN  ret = Ok(WrapIf(NeedsNullable(typeArgs), fs))

\* C8: for a valid list whose branches are not identical, not all-arithmetic, not
\* all-array, not all strings and not all fixed strings, resolution fails with
\* IncompatibleBranches and returns no type.
C8_IncompatibleBranches ==
    (/\ phase = "resolved"
     /\ ValidArgs(typeArgs)
     /\ ~hasIdenticalTypes(typeArgs)
     /\ ~hasArithmeticBranches(typeArgs)
     /\ ~hasArrayBranches(typeArgs)
     /\ ~hasStrings(typeArgs)
     /\ ~hasFixedStrings(typeArgs))
        => (ret.err = "IncompatibleBranches" /\ ret.type = <<>>)

\* C8 witness: an Int32 branch and a String branch end with IncompatibleBranches.
C8_Witness ==
    /\ phase = "resolved"
    /\ Len(typeArgs) = 3
    /\ At(typeArgs, 0) = T_UInt8
    /\ At(typeArgs, 1) = T_Int32
    /\ At(typeArgs, 2) = T_String
    /\ ret.err = "IncompatibleBranches"

\* The list C9 resolves the element type from: conditions kept, each array
\* branch replaced by its element type, each null branch kept.
C9_ElementList(args) ==
    [k \in 1 .. Len(args) |->
        IF k - 1 \in BranchPositions(args) /\ ~isNull(args[k])
        THEN IF Head(args[k]) = "Nullable" THEN Tail(Tail(args[k])) ELSE Tail(args[k])
        ELSE args[k]]

\* The branches are all arrays (nullable-wrapped or null allowed) and not all
\* arithmetic.
C9_Case ==
    /\ phase = "resolved"
    /\ ValidArgs(typeArgs)
    /\ ~hasArithmeticBranches(typeArgs)
    /\ hasArrayBranches(typeArgs)

\* C9 as stated: the result is array-of-E, nullable exactly when some branch is
\* nullable-wrapped or null, E being the resolution of the element list.
C9_ArrayOfResolvedElement ==
    C9_Case =>
        LET E == getReturnTypeImpl(C9_ElementList(typeArgs), is_case_mode)
        IN  isOk(E) => ret = Ok(WrapIf(NeedsNullable(typeArgs), DataTypeArray(E.type)))

\* C9 amended: the result is array-of-E', nullable exactly when some branch is
\* nullable-wrapped or null, E' being the resolution of the element list with its
\* nullable wrapper, if any, removed; when the element list does not resolve,
\* the whole list fails with the same error.
C9_ArrayOfStrippedElement ==
    C9_Case =>
        LET E == getReturnTypeImpl(C9_ElementList(typeArgs), is_case_mode)
            stripped == IF Head(E.type) = "Nullable" THEN Tail(E.type) ELSE E.type
        IN  IF isOk(E)
            THEN ret = Ok(WrapIf(NeedsNullable(typeArgs), DataTypeArray(stripped)))
            ELSE ret = E

\* C9 witness: Array(Int32) and a null branch, whose element list resolves to
\* Nullable(Int32), give Nullable(Array(Int32)).
C9_Witness ==
    /\ phase = "resolved"
    /\ Len(typeArgs) = 3
    /\ At(typeArgs, 0) = T_UInt8
    /\ At(typeArgs, 1) = DataTypeArray(T_Int32)
    /\ At(typeArgs, 2) = T_Null
    /\ getReturnTypeImpl(C9_ElementList(typeArgs), is_case_mode) = Ok(DataTypeNullable(T_Int32))
    /\ ret = Ok(DataTypeNullable(DataTypeArray(T_Int32)))

---------------------------------------------------------------------------
(* FunctionsConditional.cpp: relabelling of a caught CondException *)

\* The codes of CondErrorCodes that rethrowContextually names, and one it does
\* not name.
KnownCondErrorCodes ==
    {"TYPE_DEDUCER_ILLEGAL_COLUMN_TYPE", "TYPE_DEDUCER_UPSCALING_ERROR",
     "NUMERIC_PERFORMER_ILLEGAL_COLUMN", "COND_SOURCE_ILLEGAL_COLUMN",
     "NUMERIC_EVALUATOR_ILLEGAL_ARGUMENT", "ARRAY_EVALUATOR_INVALID_TYPES"}
CondErrorCodes == KnownCondErrorCodes \cup {"UNKNOWN_CODE"}

\* The message fragments the throwers give: the decimal index of an argument,
\* the name of a column or of a type, or nothing.
ArgumentIndexes == {toString(i) : i \in 0 .. MaxArgs - 1}
Names == {<<"c">>}
Fragments == ArgumentIndexes \cup Names \cup {<<>>}

\* The CondExceptions the catch clauses can receive: an index-carrying code
\* comes with the index where rethrowContextually parses it.
CaughtExceptions ==
    {CondExceptionOf(c, n, <<>>) :
        c \in {"TYPE_DEDUCER_ILLEGAL_COLUMN_TYPE", "TYPE_DEDUCER_UPSCALING_ERROR"},
        n \in Names}
    \cup {CondExceptionOf(c, i, <<>>) :
            c \in {"NUMERIC_PERFORMER_ILLEGAL_COLUMN",
                   "NUMERIC_EVALUATOR_ILLEGAL_ARGUMENT"},
            i \in ArgumentIndexes}
    \cup {CondExceptionOf("COND_SOURCE_ILLEGAL_COLUMN", n, i) :
            n \in Names, i \in ArgumentIndexes}
    \cup {CondException("ARRAY_EVALUATOR_INVALID_TYPES")}
    \cup {CondExceptionOf("UNKNOWN_CODE", a, b) : a \in Fragments, b \in Fragments}

InitRethrow ==
    /\ caught \in CaughtExceptions
    /\ is_case_mode \in BOOLEAN
    /\ typeArgs = <<>>
    /\ ret = NoResult
    /\ phase = "caught"
    /\ CaseIdle
    /\ ExecIdle

\* catch (const Conditional::CondException & ex) { rethrowContextually(ex); }
Rethrow ==
    /\ phase = "caught"
    /\ thrown' = rethrowContextually(caught, is_case_mode)
    /\ phase' = "rethrown"
    /\ UNCHANGED <<typeArgs, ret, is_case_mode, caught, call_block, call_args,
                   call_result, status, trivial, tracker_holder>>
    /\ UNCHANGED caseVars

NextRethrow == Rethrow

SpecRethrow == InitRethrow /\ [][NextRethrow]_vars

---------------------------------------------------------------------------
(* FunctionsConditional.cpp: FunctionCaseWithExpr *)

\* The longest argument list handed to FunctionCaseWithExpr.
MaxCaseArgs == 6

\* The loop "for (size_t i = 1; i < (args.size() - 1); ++i)" of both methods:
\* an argument at an odd i goes to the source array, one at an even i to the
\* destination array.
RECURSIVE caseLoop(_, _, _, _)
caseLoop(args, i, src_array, dst_array) ==
    IF ~(i < Len(args) - 1) THEN [src |-> src_array, dst |-> dst_array]
    ELSE IF (i % 2) # 0
    THEN caseLoop(args, i + 1, Append(src_array, At(args, i)), dst_array)
    ELSE caseLoop(args, i + 1, src_array, Append(dst_array, At(args, i)))

\* With no argument args.size() - 1 wraps around (size_t): the loop reads args
\* past its end, which is undefined; the call does not get to the transform.
CaseUndefinedOutcomes == {"crashed", "bad_alloc"}

\* FunctionCaseWithExpr::getReturnTypeImpl: the types handed to the array
\* function (twice) and to the transform function.
caseWithExpr_getReturnTypeImpl(args, undefined) ==
    IF Len(args) = 0 THEN [outcome |-> undefined]
    ELSE LET arrays == caseLoop(args, 1, <<>>, <<>>)
         IN  [outcome |-> "called",
              needle |-> Head(args),
              src |-> arrays.src,
              dst |-> arrays.dst,
              default |-> At(args, Len(args) - 1)]

\* The types of the columns of the block FunctionCaseWithExpr::executeImpl
\* is called on, by position.
CaseBlockTypes == <<T_UInt8, T_String>>

\* FunctionCaseWithExpr::executeImpl: the positions (and their types) the two
\* arrays are built from, and the needle and default handed to transform.
caseWithExpr_executeImpl(block_types, args, undefined) ==
    IF Len(args) = 0 THEN [outcome |-> undefined]
    ELSE LET arrays == caseLoop(args, 1, <<>>, <<>>)
             types_of(list) == [k \in 1 .. Len(list) |-> At(block_types, list[k])]
         IN  [outcome |-> "called",
              needle |-> Head(args),
              src |-> arrays.src,
              dst |-> arrays.dst,
              default |-> At(args, Len(args) - 1),
              src_types |-> types_of(arrays.src),
              dst_types |-> types_of(arrays.dst)]

\* Argument lists of up to MaxCaseArgs members drawn from S.
ListsOf(S) == UNION {[1 .. n -> S] : n \in 0 .. MaxCaseArgs}

InitCase ==
    /\ \/ /\ phase = "case_types"
          /\ case_args \in ListsOf({CaseBlockTypes[k] : k \in 1 .. Len(CaseBlockTypes)})
       \/ /\ phase = "case_block"
          /\ case_args \in ListsOf(0 .. Len(CaseBlockTypes) - 1)
    /\ transform_call = <<>>
    /\ is_case_mode = TRUE
    /\ typeArgs = <<>>
    /\ ret = NoResult
    /\ caught = <<>>
    /\ ExecIdle

CaseGetReturnType ==
    /\ phase = "case_types"
    /\ \E undefined \in CaseUndefinedOutcomes :
          transform_call' = caseWithExpr_getReturnTypeImpl(case_args, undefined)
    /\ phase' = "case_resolved"
    /\ UNCHANGED <<typeArgs, ret, is_case_mode, caught, case_args>>
    /\ UNCHANGED execVars

CaseExecute ==
    /\ phase = "case_block"
    /\ \E undefined \in CaseUndefinedOutcomes :
          transform_call' = caseWithExpr_executeImpl(CaseBlockTypes, case_args, undefined)
    /\ phase' = "case_executed"
    /\ UNCHANGED <<typeArgs, ret, is_case_mode, caught, case_args>>
    /\ UNCHANGED execVars

NextCase == CaseGetReturnType \/ CaseExecute

SpecCase == InitCase /\ [][NextCase]_vars

---------------------------------------------------------------------------
(* Properties of execution (checked under SpecExec) *)

\* The column that supplied the result's row, as the tracker records it.
TrackedOrigin(row) == call_block[tracker_holder.vals[row]].col

\* executeImpl succeeded on the nullable path with a result other than the
\* null column.
C1_Case ==
    /\ status = "ok"
    /\ blockHasNullableBranches(call_block, call_args)
    /\ ~col_isNull(call_block[call_result].col)

\* C1: after executeImpl succeeds on a block with a nullable or null branch and
\* the result is not the null column, the result's null map holds 1 on a row
\* exactly when the column the tracker records for that row is the null column
\* or a nullable column whose own null map holds 1 on that row.
C1_NullMapFollowsTracker ==
    C1_Case =>
        \A row \in Rows :
            (call_block[call_result].col.nullmap[row] = 1)
                <=> \/ TrackedOrigin(row).kind = "null"
                    \/ /\ TrackedOrigin(row).kind = "nullable"
                       /\ TrackedOrigin(row).nullmap[row] = 1

\* The block performTrivialCase is handed: the caller's block, with the branch
\* columns replaced by their nested columns on the nullable path.
C2_Input ==
    IF blockHasNullableBranches(call_block, call_args)
    THEN createBlockWithNestedColumns(call_block,
            {At(call_args, i) : i \in BranchPositions(call_args)})
    ELSE call_block

C2_NonNullBranches ==
    {i \in BranchPositions(call_args) : C2_Input[At(call_args, i)].type # T_Null}

\* The conditions whose column is a constant that is true.
C2_TrueConstants ==
    {i \in CondPositions(call_args) :
        /\ C2_Input[At(call_args, i)].col.kind = "const"
        /\ C2_Input[At(call_args, i)].col.vals[1] = 1}

\* The branches that are not null have one type name, there is such a branch,
\* and every condition column is a constant.
C2_Case ==
    /\ status # "ready"
    /\ C2_NonNullBranches # {}
    /\ \A i, j \in C2_NonNullBranches :
          C2_Input[At(call_args, i)].type = C2_Input[At(call_args, j)].type
    /\ \A i \in CondPositions(call_args) :
          C2_Input[At(call_args, i)].col.kind \in {"const", "null"}

\* The block position of the then-branch of the first true condition, or of
\* the else-branch when no condition is true.
C2_Chosen ==
    IF C2_TrueConstants = {}
    THEN At(call_args, Len(call_args) - 1)
    ELSE At(call_args, Min(C2_TrueConstants) + 1)

\* C2: in that case performTrivialCase returns true and its output is the
\* then-branch of the first condition whose constant is true, or the else-branch
\* when none is (a null branch is put out as a constant of the common type,
\* holding the first row of the first branch that is not null).
C2_FirstTrueConditionWins ==
    C2_Case =>
        /\ trivial.ret = TRUE
        /\ trivial.index = C2_Chosen
        /\ trivial.col =
              IF C2_Input[C2_Chosen].col.kind = "null"
              THEN ColumnConst(
                      C2_Input[At(call_args, Min(C2_NonNullBranches))].col.vals[1])
              ELSE C2_Input[C2_Chosen].col

\* C2 witness: two conditions are true constants and the first then-branch is
\* the output.
C2_Witness ==
    /\ C2_Case
    /\ Len(call_args) = 5
    /\ C2_TrueConstants = {0, 2}
    /\ trivial.ret = TRUE
    /\ trivial.index = At(call_args, 1)
    /\ trivial.col = C2_Input[At(call_args, 1)].col

\* C10: whenever executeImpl ends with an error, the column at the result
\* position of the caller's block is the one that was there before the call.
C10_ErrorLeavesResult ==
    [][(status = "ready" /\ status' = "error")
          => call_block'[call_result].col = call_block[call_result].col]_vars

\* executeImpl went through the per-row tracker branch of the nullable path.
C13_Case ==
    /\ status \in {"ok", "crashed"}
    /\ blockHasNullableBranches(call_block, call_args)
    /\ tracker_holder.kind = "full"

\* C13: on the nullable path with a per-row tracker, every index at which the
\* two flag tables are written (the block position of each argument) and read
\* (each row's tracker value) is smaller than the number of arguments, the
\* size of the tables.
C13_FlagTableIndexesInRange ==
    C13_Case =>
        /\ \A i \in ArgPositions(call_args) :
              At(call_args, i) < Len(call_args)
        /\ \A row \in Rows : tracker_holder.vals[row] < Len(call_args)

---------------------------------------------------------------------------
(* Properties of the relabelling (checked under SpecRethrow) *)

\* C11: for every CondException code handed to rethrowContextually, known to it
\* or not, the error code of the Exception raised in CASE mode is the error
\* code of the Exception raised in function mode for the same CondException;
\* the Exception that was raised carries that code.
C11_SameCodeInBothModes ==
    phase = "rethrown" =>
        /\ rethrowContextually(caught, TRUE).code
              = rethrowContextually(caught, FALSE).code
        /\ rethrowContextually(caught, TRUE).err
              = rethrowContextually(caught, FALSE).err
        /\ thrown.code = rethrowContextually(caught, ~is_case_mode).code

\* C11 witness: in CASE mode NUMERIC_PERFORMER_ILLEGAL_COLUMN for argument 3
\* was raised as ILLEGAL_COLUMN, naming THEN clause 2, a message function mode
\* does not give.
C11_Witness ==
    /\ phase = "rethrown"
    /\ is_case_mode
    /\ caught = CondExceptionOf("NUMERIC_PERFORMER_ILLEGAL_COLUMN", toString(3), <<>>)
    /\ thrown = Exception("IllegalColumn", "ILLEGAL_COLUMN",
                    "Illegal THEN clause 2 in CASE construction")
    /\ rethrowContextually(caught, FALSE)
          = Exception("IllegalColumn", "ILLEGAL_COLUMN",
                "Illegal argument 3 of function multiIf")

---------------------------------------------------------------------------
(* Properties of FunctionCaseWithExpr (checked under SpecCase) *)

\* C12: for every argument list given to FunctionCaseWithExpr, in type
\* resolution and in execution, transform is handed the first argument as
\* needle, the last as default, and two arrays of the same number n of members:
\* member k of the source array is the k-th WHEN value and member k of the
\* destination array the k-th THEN result, in the order of the arguments.
C12_TransformReceivesPairs ==
    phase \in {"case_resolved", "case_executed"} =>
        /\ transform_call.outcome = "called"
        /\ transform_call.needle = Head(case_args)
        /\ transform_call.default = case_args[Len(case_args)]
        /\ Len(transform_call.src) = Len(transform_call.dst)
        /\ Len(transform_call.src) + Len(transform_call.dst) = Len(case_args) - 2
        /\ \A k \in 1 .. Len(transform_call.src) :
              /\ transform_call.src[k] = At(case_args, 2 * k - 1)
              /\ transform_call.dst[k] = At(case_args, 2 * k)

===========================================================================
